---- MODULE Spec2Model ----
(***************************************************************************)
(* A model of nimsdata/nimsphysio.py: the NIMSPhysio object after          *)
(* construction, its compute_regressors method and its is_valid method.    *)
(*                                                                         *)
(* Time is counted in ticks, TicksPerSec ticks to the second, so that      *)
(* every slice time, trigger time and window bound of the inputs below is  *)
(* an integer.  Real-valued results that the code obtains by division are  *)
(* kept as exact fractions; a 0/0 of the floating point arithmetic is the  *)
(* value NaN.  Values the code obtains through transcendental functions,   *)
(* convolution or a least squares fit are kept as terms: the name of the   *)
(* column and the data it was computed from.                               *)
(***************************************************************************)
EXTENDS Integers, Sequences, FiniteSets, TLC

\* ---------------------------------------------------------------- bounds
MaxTr == 2
MaxFrames == 4
MaxSlices == 2

\* ticks per second: a multiple of 2*nslc for every nslc up to 4
TicksPerSec == 2 * 12

\* ------------------------------------------------------ program constants
MinFrames == 3
NumBins == 100
ntaps == 20
\* t_win = 6 * 0.5 seconds
t_win == 3 * TicksPerSec
\* filtfilt pads 3 * max(len(a), len(b)) samples at each end and refuses
\* an input that is not longer than the padding
padlen == 3 * ntaps
\* the response functions are sampled up to 40 seconds
Horizon == 40
\* the thresholds of is_valid: frames, cardiac standard deviation,
\* respiration low-frequency ratio, and the bins a spectrum must exceed
min_number_of_frames == 8
min_card_std == 4
min_resp_lfp == 50
MinSpectrum == 300
\* the bounds of the two bands of the spectrum: freq[2:100], freq[-100:]
LowFrom == 2
LowTo == 100
HighLast == 100

\* ---------------------------------------------------------------- values
\* an attribute that is None
None == <<>>

Abs(x) == IF x < 0 THEN -x ELSE x

RECURSIVE GCD(_, _)
GCD(a, b) == IF b = 0 THEN a ELSE GCD(b, a % b)

NaN == [k |-> "nan", n |-> 0, d |-> 0]
Inf(s) == [k |-> "inf", n |-> s, d |-> 0]

\* the floating point quotient n / d as an exact fraction in lowest terms,
\* nan for 0/0 and +-inf for x/0
Frac(n, d) ==
    IF d = 0 THEN (IF n = 0 THEN NaN ELSE Inf(IF n > 0 THEN 1 ELSE -1))
    ELSE LET g == GCD(Abs(n), Abs(d))
             s == IF d < 0 THEN -1 ELSE 1
         IN [k |-> "num", n |-> s * (n \div g), d |-> s * (d \div g)]

Zero == Frac(0, 1)

IsFinite(x) == x.k = "num"

\* a - b and a / n (n > 0) on finite fractions
FracSub(a, b) == Frac(a.n * b.d - b.n * a.d, a.d * b.d)
FracDiv(a, n) == Frac(a.n, a.d * n)

RECURSIVE FracSum(_, _)
FracSum(xs, k) ==
    IF k = 0 THEN Zero
    ELSE LET rest == FracSum(xs, k - 1)
         IN Frac(rest.n * xs[k].d + xs[k].n * rest.d, rest.d * xs[k].d)

\* x -= x.mean() in floating point: a nan anywhere makes the mean, and then
\* every entry, nan; an infinite mean leaves infinities and nan
Demean(xs) ==
    LET idx == 1..Len(xs)
    IN IF \A i \in idx : IsFinite(xs[i])
       THEN [i \in idx |-> FracSub(xs[i], FracDiv(FracSum(xs, Len(xs)), Len(xs)))]
       ELSE IF \/ \E i \in idx : xs[i].k = "nan"
               \/ \E i, j \in idx : xs[i].k = "inf" /\ xs[j].k = "inf" /\ xs[i].n # xs[j].n
       THEN [i \in idx |-> NaN]
       ELSE LET mean == xs[CHOOSE i \in idx : xs[i].k = "inf"]
            IN [i \in idx |-> IF IsFinite(xs[i]) THEN Inf(-mean.n) ELSE NaN]

SetMin(S) == CHOOSE x \in S : \A y \in S : x <= y
SetMax(S) == CHOOSE x \in S : \A y \in S : x >= y
Min2(a, b) == IF a <= b THEN a ELSE b
Max2(a, b) == IF a >= b THEN a ELSE b

\* np.round(n / d), d > 0: to the nearest integer, a half to the even one
Round(n, d) ==
    LET q == n \div d
        r == n % d
    IN IF 2 * r < d THEN q
       ELSE IF 2 * r > d THEN q + 1
       ELSE IF q % 2 = 0 THEN q ELSE q + 1

\* the length of np.arange(start, stop, step), step > 0
ArangeLen(start, stop, step) ==
    IF stop <= start THEN 0 ELSE (stop - start + step - 1) \div step

VARIABLES
    tr, tr_is_int, nframes, slice_order, scan_duration, log,
    card_wave, card_trig, card_dt, resp_wave, resp_dt,
    phases, heart_rate, regressors,
    status, exc, msg, at,
    entry, first,
    valid

inputs == <<tr, tr_is_int, nframes, slice_order, scan_duration, log,
            card_wave, card_trig, card_dt, resp_wave, resp_dt>>
outputs == <<phases, heart_rate, regressors>>
vars == <<inputs, outputs, status, exc, msg, at, entry, first, valid>>

nslc == Len(slice_order)

\* ------------------------------------------------------------ the inputs
\* the arguments of the constructor and the contents of the physio files

\* slice_order=None: a standard interleave, range(0,n,2) + range(1,n,2)
Interleave(n) ==
    LET evens == (n + 1) \div 2
    IN [i \in 1..n |-> IF i <= evens THEN 2 * (i - 1) ELSE 2 * (i - evens) - 1]

\* an explicit slice_order of n entries in [0, n): a permutation, or a
\* permutation with one entry overwritten by another slice (the constructor
\* copies the array unchecked)
PermutationsOf(n) == {f \in [1..n -> 0..(n - 1)] : \A s \in 0..(n - 1) : \E i \in 1..n : f[i] = s}
Overwritten(n) ==
    {[Interleave(n) EXCEPT ![p] = v] : p \in 1..n, v \in 0..(n - 1)}
SliceOrders == UNION {PermutationsOf(n) \cup Overwritten(n) : n \in 1..MaxSlices}

IsPermutation(so) == \A s \in 0..(Len(so) - 1) : \E i \in 1..Len(so) : so[i] = s

\* the RESPData file with the resp_dt argument (ticks) it is read with:
\* two samples; four seconds; samples every third of a second that cover
\* the longest scan of the bounds; a hundred samples, twelve a second
LongResp == padlen + 3 * (MaxTr + 1) * (MaxFrames + 1)
DefaultResp == [wave |-> [i \in 1..LongResp |-> i % 4], dt |-> 8]
RespFiles ==
    { [wave |-> <<5, 7>>, dt |-> 1],
      [wave |-> [i \in 1..(4 * TicksPerSec) |-> 2 + (i % 3)], dt |-> 1],
      DefaultResp,
      [wave |-> [i \in 1..(5 * ntaps) |-> 1 + ((i * i) % 5)], dt |-> 2] }

\* the PPGData file: secs seconds of scan and extra seconds recorded before
\* it, one sample a second
CardWave(secs, extra) == [i \in 1..(secs + extra) |-> 10 * (i % 2)]

\* the PPGTrig file: ascending sample numbers of the detected pulses
EverySecond == [i \in 1..(MaxTr * MaxFrames + 4) |-> i - 1]
TrigFiles == { <<>>, <<1>>, <<0, 1>>, <<0, 2, 3>>, <<9, 10>>, EverySecond }

\* the physio recordings: every respiration file with a pulse a second, and
\* every trigger file, with and without a second recorded before the scan,
\* with the long respiration file
Recordings ==
    {[resp |-> rf, raw |-> EverySecond, extra |-> 0] : rf \in RespFiles}
        \cup {[resp |-> DefaultResp, raw |-> raw, extra |-> e] :
                 raw \in TrigFiles, e \in 0..1}

\* the inputs compute_regressors is said to leave alone
Inputs ==
    [resp_wave |-> resp_wave, card_trig |-> card_trig, card_wave |-> card_wave,
     slice_order |-> slice_order, tr |-> <<tr, tr_is_int>>, nframes |-> nframes,
     resp_dt |-> resp_dt, card_dt |-> card_dt]

\* the tensors of the first call that ran to its end, and whether a later
\* call has run to its end after it
NoResult ==
    [set |-> FALSE, again |-> FALSE,
     phases |-> None, heart_rate |-> None, regressors |-> None]

\* what the last call of is_valid returned, and the attributes it was
\* called on
NotAsked == [ret |-> "none", attrs |-> None]

\* __init__ followed by read_ge_data: t seconds of tr (a Python int or a
\* float), nf frames, the slice order so, a logger or none, and the files
Construct(t, isint, nf, so, lg, rf, cw, cdt, raw) ==
    /\ tr = t
    /\ tr_is_int = isint
    /\ nframes = nf
    /\ slice_order = so
    /\ log = lg
    /\ scan_duration = nf * t * TicksPerSec
    /\ resp_wave = rf.wave
    /\ resp_dt = rf.dt
    /\ card_wave = cw
    /\ card_dt = cdt
    \* move time zero to the start of the fMRI data
    /\ LET offset == cdt * Len(cw) - nf * t * TicksPerSec
       IN card_trig = [i \in 1..Len(raw) |-> raw[i] * cdt - offset]
    /\ phases = None
    /\ heart_rate = None
    /\ regressors = None
    /\ status = "new"
    /\ exc = ""
    /\ msg = "none"
    /\ at = [stage |-> "new", sl |-> 0]
    /\ entry = Inputs
    /\ first = NoResult
    /\ valid = NotAsked

\* a logger matters to the calls that warn only
InitSmall ==
    \E t \in 1..MaxTr, isint \in BOOLEAN, nf \in 0..MaxFrames, so \in SliceOrders,
       lg \in BOOLEAN, rec \in Recordings :
        /\ nf >= MinFrames => ~lg
        /\ Construct(t, isint, nf, so, lg, rec.resp,
                     CardWave(nf * t, rec.extra), TicksPerSec, rec.raw)

\* one slice, tr = 2 s, 10 frames, a pulse every second for 20 s
ScenarioA ==
    Construct(2, FALSE, 10, <<0>>, FALSE,
              [wave |-> [i \in 1..(padlen + 1) |-> i % 4], dt |-> 8],
              CardWave(20, 0), TicksPerSec, [i \in 1..21 |-> i - 1])

\* slow scans of one slice and three frames: tr is half the 40 seconds of
\* the response functions, or all of them; a pulse every second, and a
\* respiration file that covers the scan or the short one
SlowResp == [wave |-> [i \in 1..(3 * 3 * Horizon) |-> i % 4], dt |-> 8]
SlowScans ==
    \E t \in {Horizon \div 2, Horizon}, rf \in {SlowResp, DefaultResp} :
        Construct(t, TRUE, MinFrames, <<0>>, FALSE, rf,
                  CardWave(MinFrames * t, 0), TicksPerSec,
                  [i \in 1..(MinFrames * t + 1) |-> i - 1])

Init == InitSmall \/ ScenarioA \/ SlowScans

\* the inputs of is_valid
\* a PPGData file of len samples that alternate between 0 and amp
Pulses(len, amp) == [i \in 1..len |-> amp * (i % 2)]
PulseAmps == {0, 2 * min_card_std, 2 * min_card_std + 2}

\* a RESPData file of len samples that repeat a period of 8 samples which
\* is symmetric about its first sample: half holds the samples 0 to 4
Periodic(half, len) ==
    LET period == <<half[1], half[2], half[3], half[4], half[5],
                    half[4], half[3], half[2]>>
    IN [i \in 1..len |-> period[((i - 1) % 8) + 1]]

\* a coarse cosine, two coarser ones, a flat line, an alternation
Halves ==
    { <<24, 17, 0, -17, -24>>, <<3, 2, 0, -2, -3>>, <<12, 8, 1, -9, -12>>,
      <<5, 5, 5, 5, 5>>, <<1, -1, 1, -1, 1>> }

\* lengths around the one whose spectrum has MinSpectrum + 1 bins, and the
\* last and first whole numbers of periods whose first harmonic lies in
\* and beyond the low band
RespLengths ==
    { 2 * MinSpectrum - 8, 2 * MinSpectrum - 2, 2 * MinSpectrum,
      8 * (LowTo - 1), 8 * LowTo }

ValidResp ==
    RespFiles \cup {[wave |-> Periodic(h, n), dt |-> 1] : h \in Halves, n \in RespLengths}

ValidFrames ==
    {MinFrames - 1, min_number_of_frames - 1, min_number_of_frames,
     min_number_of_frames + 1}

ValidInit ==
    \E t \in 1..MaxTr, nf \in ValidFrames, amp \in PulseAmps, e \in 0..1,
       rf \in ValidResp :
        Construct(t, TRUE, nf, <<0>>, FALSE, rf,
                  Pulses(e * nf * t, amp), TicksPerSec, <<>>)

\* ----------------------------------------------------------- Timing Model
\* (sl == self.slice_order).nonzero()[0][0]: the first position of slice s
\* in the slice order, -1 where the code raises IndexError
cur_slice_acq(s) ==
    LET pos == {i \in 1..nslc : slice_order[i] = s}
    IN IF pos = {} THEN -1 ELSE SetMin(pos) - 1

\* self.tr / nslc: the quotient of two Python ints is their floored
\* quotient, that of a float and an int the true quotient; in ticks
TrOverNslc(n) ==
    IF tr_is_int THEN (tr \div n) * TicksPerSec
    ELSE (tr * TicksPerSec) \div n

\* np.arange((self.tr/nslc)*(cur_slice_acq+0.5), self.scan_duration, self.tr)
slice_times(s) ==
    LET start == (TrOverNslc(nslc) * (2 * cur_slice_acq(s) + 1)) \div 2
        step == tr * TicksPerSec
    IN [k \in 1..ArangeLen(start, scan_duration, step) |-> start + (k - 1) * step]

\* -------------------------------------------------------- Phase Extractor
\* a slip in the comparisons: a trigger at the slice time counts as both
\* the previous and the next one
phi_cardiac_nonstrict(t) ==
    LET prev_trigs == {i \in 1..Len(card_trig) : card_trig[i] <= t}
        next_trigs == {i \in 1..Len(card_trig) : card_trig[i] >= t}
        t1 == IF prev_trigs = {} THEN 0 ELSE card_trig[SetMax(prev_trigs)]
        t2 == IF next_trigs = {} THEN nframes * tr * TicksPerSec
              ELSE card_trig[SetMin(next_trigs)]
    IN Frac(t - t1, t2 - t1)

\* the cardiac phase at time t as a fraction of 2*pi
phi_cardiac(t) ==
    LET prev_trigs == {i \in 1..Len(card_trig) : card_trig[i] < t}
        next_trigs == {i \in 1..Len(card_trig) : card_trig[i] > t}
        t1 == IF prev_trigs = {} THEN 0 ELSE card_trig[SetMax(prev_trigs)]
        t2 == IF next_trigs = {} THEN nframes * tr * TicksPerSec
              ELSE card_trig[SetMin(next_trigs)]
    IN Frac(t - t1, t2 - t1)

\* np.histogram(w, 100): the range [lo, hi] of the data, widened by a half
\* on both sides when the data is constant; in half units
Histogram(w) ==
    LET vals == {w[i] : i \in 1..Len(w)}
        lo == SetMin(vals)
        hi == SetMax(vals)
    IN IF lo = hi THEN [lo |-> 2 * lo - 1, hi |-> 2 * hi + 1]
       ELSE [lo |-> 2 * lo, hi |-> 2 * hi]

\* the bin a sample falls in: the last bin is closed on the right
BinOf(h, x) ==
    IF 2 * x = h.hi THEN NumBins - 1
    ELSE (NumBins * (2 * x - h.lo)) \div (h.hi - h.lo)

\* np.abs(amp - bins).argmin(): the bin edge closest to amp, the lower one
\* of two equally close
ClosestEdge(h, amp) ==
    LET num == NumBins * (2 * amp - h.lo)
        den == h.hi - h.lo
        j == num \div den
    IN IF 2 * (num % den) > den THEN j + 1 ELSE j

\* Hb[0:thisBin].sum() for every amplitude amp of the waveform: the number
\* of samples in the bins below the bin edge closest to amp
Numer(w, h) ==
    [amp \in {w[i] : i \in 1..Len(w)} |->
        Cardinality({i \in 1..Len(w) : BinOf(h, w[i]) < ClosestEdge(h, amp)})]

\* the respiration phase at time t: pi * sign(drdt[iphys]) * numer / size,
\* kept as the sample index that selects the sign, and numer over size
phi_resp(w, numer, t) ==
    LET drdt_size == Len(w) - 1
        iphys == Min2(Max2(0, Round(t, resp_dt)), drdt_size - 1)
        amp == w[iphys + 1]
    IN [iphys |-> iphys, numer |-> numer[amp], size |-> Len(w)]

ZeroPhase == [c |-> Zero, r |-> [iphys |-> 0, numer |-> 0, size |-> 1]]

\* self.phases[s, :, :] after the loop body of slice s
PhaseRow(w, numer, s) ==
    LET st == slice_times(s)
    IN [fr \in 1..nframes |->
           [c |-> phi_cardiac(st[fr]), r |-> phi_resp(w, numer, st[fr])]]

\* the first slice whose position lookup raises, nslc when none does
FirstMissing ==
    LET bad == {s \in 0..(nslc - 1) : cur_slice_acq(s) < 0}
    IN IF bad = {} THEN nslc ELSE SetMin(bad)

\* np.zeros((nslc, nframes, 2)) with the rows of the slices below upto
\* filled in; phases[s + 1][fr] is self.phases[s, fr - 1, :]
PhasesUpTo(w, upto) ==
    CHOOSE ph \in
        { [i \in 1..nslc |->
              IF i - 1 < upto THEN PhaseRow(w, numer, i - 1)
              ELSE [fr \in 1..nframes |-> ZeroPhase]] :
          numer \in {Numer(w, Histogram(w))} } : TRUE

\* ------------------------------------------------------ Retroicor Builder
\* a regressor column of one slice, as a term: its name, the series it is
\* computed from, whether it holds nan, whether the quadratic trend has
\* been subtracted from it
Column(name, of, nan) == [name |-> name, of |-> of, nan |-> nan, detr |-> FALSE]

\* REGRESSORS_RET[:, :, s]: the Fourier expansion of the two phases
RetColumns(ph, s) ==
    LET phi_c == [fr \in 1..nframes |-> ph[s + 1][fr].c]
        phi_r == [fr \in 1..nframes |-> ph[s + 1][fr].r]
    IN << Column("c1_c", phi_c, FALSE), Column("s1_c", phi_c, FALSE),
          Column("c2_c", phi_c, FALSE), Column("s2_c", phi_c, FALSE),
          Column("c1_r", phi_r, FALSE), Column("s1_r", phi_r, FALSE),
          Column("c2_r", phi_r, FALSE), Column("s2_r", phi_r, FALSE) >>

\* ----------------------------------------------------------- RVHR Builder
\* a slip in the upper bound: the last sample is left out
RvWindowOneShort(w, t) ==
    [i1 |-> Max2(0, (t - t_win) \div resp_dt),
     i2 |-> Min2(Len(w) - 1, (t + t_win) \div resp_dt)]

\* the bounds i1, i2 of the respiration samples of the window around t
RvWindow(w, t) ==
    [i1 |-> Max2(0, (t - t_win) \div resp_dt),
     i2 |-> Min2(Len(w), (t + t_win) \div resp_dt)]

\* the frames of slice s (from 1) at which the RV loop raises
RvBadFrames(w, s) ==
    LET st == slice_times(s)
    IN {tp \in 1..nframes : RvWindow(w, st[tp]).i2 < RvWindow(w, st[tp]).i1}

\* rv before demeaning: the standard deviation of w[i1:i2] as a term, nan
\* for an empty range
RvSeries(w, s) ==
    LET st == slice_times(s)
    IN [tp \in 1..nframes |->
           [i1 |-> RvWindow(w, st[tp]).i1, i2 |-> RvWindow(w, st[tp]).i2,
            nan |-> RvWindow(w, st[tp]).i1 = RvWindow(w, st[tp]).i2]]

\* the indices of the triggers in the window around t, bounds included
inds(t) ==
    {i \in 1..Len(card_trig) : card_trig[i] >= t - t_win /\ card_trig[i] <= t + t_win}

\* (inds[-1] - inds[0]) * 60. / (card_trig[inds[-1]] - card_trig[inds[0]])
HrOfWindow(ix) ==
    LET a == SetMin(ix)
        b == SetMax(ix)
    IN Frac((b - a) * 60 * TicksPerSec, card_trig[b] - card_trig[a])

\* hr[0..tp-1] of slice s, before demeaning: an empty window repeats the
\* value of the frame before
\* a slip in the index: the value of the first frame is repeated
HeldFirst(before, tp) == before[1]

\* hr[tp] = hr[tp-1], for the frame tp counted from 1 and not the first
Held(before, tp) == before[tp - 1]

RECURSIVE HrSeries(_, _)
HrSeries(s, tp) ==
    IF tp = 0 THEN <<>>
    ELSE LET before == HrSeries(s, tp - 1)
             ix == inds(slice_times(s)[tp])
         IN Append(before, IF ix = {} THEN Held(before, tp) ELSE HrOfWindow(ix))

\* a slip in the store: heart_rate aliases hr and is demeaned with it
StoredAlias(hr) == Demean(hr)

\* self.heart_rate[:, sl] = hr copies the values of hr as they are before
\* hr -= hr.mean() changes hr in place
StoredHeartRate(hr) == hr

\* frame 0 of slice s has no trigger in its window: the HR loop raises
HrRaises(s) == inds(slice_times(s)[1]) = {}

\* the messages of the two NIMSPhysioError the loops raise
RespError == "Respiration data is shorter than the scan duration."
CardError == "Cardiac trigger times do not match scan duration."

\* how the loop body of slice s ends
SliceEnds(w, s) ==
    IF RvBadFrames(w, s) # {} THEN "resp"
    ELSE IF HrRaises(s) THEN "card"
    ELSE "ok"

\* the first slice whose loop body raises, nslc when none does
FirstRaising(w) ==
    LET bad == {s \in 0..(nslc - 1) : SliceEnds(w, s) # "ok"}
    IN IF bad = {} THEN nslc ELSE SetMin(bad)

\* np.zeros((nframes, nslc)) with the columns of the slices below upto
\* stored; heart_rate[s + 1][tp] is self.heart_rate[tp - 1, s]
HeartRateUpTo(upto) ==
    [i \in 1..nslc |->
        IF i - 1 < upto THEN StoredHeartRate(HrSeries(i - 1, nframes))
        ELSE [tp \in 1..nframes |-> Zero]]

\* t = np.arange(0, 40 - self.tr, self.tr), in seconds
ResponseGrid == [k \in 1..ArangeLen(0, Horizon - tr, tr) |-> (k - 1) * tr]

\* R.max() of a response function sampled nowhere raises ValueError
GridEmpty == Len(ResponseGrid) = 0

\* REGRESSORS_RVHR[:, :, s]: rv and hr, demeaned, convolved with the
\* response functions sampled on the grid, and the differences of these
RvhrColumns(w, s) ==
    LET rv == RvSeries(w, s)
        hr == Demean(HrSeries(s, nframes))
        rvnan == \E tp \in 1..nframes : rv[tp].nan
        hrnan == \E tp \in 1..nframes : ~IsFinite(hr[tp])
        g == Len(ResponseGrid)
    IN << Column("rv_rrf", <<g, rv>>, rvnan), Column("rv_rrf_d", <<g, rv>>, rvnan),
          Column("hr_crf", <<g, hr>>, hrnan), Column("hr_crf_d", <<g, hr>>, hrnan) >>

\* np.concatenate((REGRESSORS_RET, REGRESSORS_RVHR), axis=1);
\* the result[s + 1][reg + 1] is column reg of slice s
Concatenate(ph, w) ==
    [i \in 1..nslc |-> RetColumns(ph, i - 1) \o RvhrColumns(w, i - 1)]

\* --------------------------------------------------------------- Detrender
NumRegs == 12

\* the columns in the order the loops visit them, from 0
ColumnAt(regs, p) == regs[(p \div NumRegs) + 1][(p % NumRegs) + 1]

\* the first column in loop order that holds nan, nslc * 12 when none does
FirstNan(regs) ==
    LET bad == {p \in 0..(Len(regs) * NumRegs - 1) : ColumnAt(regs, p).nan}
    IN IF bad = {} THEN Len(regs) * NumRegs ELSE SetMin(bad)

\* the tensor with the columns before position upto detrended in place
DetrendUpTo(regs, upto) ==
    [i \in 1..Len(regs) |->
        [c \in 1..NumRegs |->
            IF (i - 1) * NumRegs + (c - 1) < upto
            THEN [regs[i][c] EXCEPT !.detr = TRUE]
            ELSE regs[i][c]]]

\* -------------------------------------------------------- Validity Checker
\* self.card_wave.std() ** 2: the population variance, nan for no samples
Variance(cw) ==
    LET n == Len(cw)
        sum == FracSum([i \in 1..n |-> Frac(cw[i], 1)], n).n
        squares == FracSum([i \in 1..n |-> Frac(cw[i] * cw[i], 1)], n).n
    IN Frac(n * squares - sum * sum, n * n)

\* self.card_wave.std() > self.min_card_std; a comparison with nan is False
card_valid(cw) ==
    LET var == Variance(cw)
    IN IsFinite(var) /\ var.n > min_card_std * min_card_std * var.d

\* a real number a + b * sqrt(2) with integers a and b
Q2(a, b) == [a |-> a, b |-> b]
Q2Zero == Q2(0, 0)
Q2Add(x, y) == Q2(x.a + y.a, x.b + y.b)
Q2Scale(c, x) == Q2(c * x.a, c * x.b)

\* the sign of a + b * sqrt(2): -1, 0 or 1
Q2Sign(x) ==
    LET g == GCD(Abs(x.a), Abs(x.b))
        a == IF g = 0 THEN 0 ELSE x.a \div g
        b == IF g = 0 THEN 0 ELSE x.b \div g
    IN IF a = 0 /\ b = 0 THEN 0
       ELSE IF a >= 0 /\ b >= 0 THEN 1
       ELSE IF a <= 0 /\ b <= 0 THEN -1
       ELSE IF a > 0 THEN (IF a * a > 2 * b * b THEN 1 ELSE -1)
       ELSE (IF 2 * b * b > a * a THEN 1 ELSE -1)

Q2Abs(x) == IF Q2Sign(x) < 0 THEN Q2Scale(-1, x) ELSE x

\* 2 * cos(2 * pi * m / 8)
TwoCos(m) ==
    << Q2(2, 0), Q2(0, 1), Q2(0, 0), Q2(0, -1),
       Q2(-2, 0), Q2(0, -1), Q2(0, 0), Q2(0, 1) >>[(m % 8) + 1]

\* twice the sum of x[j] * exp(-2 pi i j h / 8) over a period x that is
\* symmetric about its first sample, where the sines cancel
RECURSIVE Harmonic(_, _, _)
Harmonic(x, h, j) ==
    IF j = 0 THEN Q2Zero
    ELSE Q2Add(Harmonic(x, h, j - 1), Q2Scale(x[j], TwoCos((j - 1) * h)))

\* np.abs(np.fft.rfft(w)) in half units, for a waveform w of whole periods
\* of 8 samples symmetric about the first: len // 2 + 1 bins, of which
\* those at the multiples of len / 8 hold the harmonics of the period
rfft_abs(w) ==
    LET reps == Len(w) \div 8
        period == SubSeq(w, 1, 8)
    IN [k \in 1..(Len(w) \div 2 + 1) |->
           IF (k - 1) % reps = 0
           THEN Q2Scale(reps, Q2Abs(Harmonic(period, (k - 1) \div reps, 8)))
           ELSE Q2Zero]

\* the sum of freq[from:to], positions counted from 0
RECURSIVE BandSum(_, _, _)
BandSum(freq, from, to) ==
    IF to <= from THEN Q2Zero
    ELSE IF to = from + 1 THEN freq[to]
    ELSE LET mid == (from + to) \div 2
         IN Q2Add(BandSum(freq, from, mid), BandSum(freq, mid, to))

\* a slip in the slice: the high band starts at bin 100
high_band_from_start(freq) == [from |-> HighLast, to |-> Len(freq)]

\* freq[-100:]: the last 100 bins
high_band(freq) == [from |-> Len(freq) - HighLast, to |-> Len(freq)]

\* freq[2:100].mean() / freq[-100:].mean() > self.min_resp_lfp for a
\* spectrum of more than 300 bins: the ratio is nan for 0/0, which exceeds
\* nothing, and inf for x/0
lfp_exceeds(freq) ==
    LET hb == high_band(freq)
        low == BandSum(freq, LowFrom, LowTo)
        high == BandSum(freq, hb.from, hb.to)
    IN IF Q2Sign(high) = 0 THEN Q2Sign(low) > 0
       ELSE Q2Sign(Q2Add(Q2Scale(hb.to - hb.from, low),
                         Q2Scale(-(min_resp_lfp * (LowTo - LowFrom)), high))) > 0

\* freq.size of the spectrum of w
freq_size(w) == Len(w) \div 2 + 1

\* ------------------------------------------------------ compute_regressors
\* a slip in the shift: the operands of the subtraction exchanged
ShiftSwapped(w) ==
    LET lo == SetMin({w[i] : i \in 1..Len(w)})
    IN [i \in 1..Len(w) |-> lo - w[i]]

\* self.resp_wave - self.resp_wave.min()
ShiftToZeroMin(w) ==
    LET lo == SetMin({w[i] : i \in 1..Len(w)})
    IN [i \in 1..Len(w) |-> w[i] - lo]

\* a slip in the guard: one frame fewer is let through
TooFewFramesOffByOne(nf) == nf < MinFrames - 1

\* the guard of the early return
TooFewFrames(nf) == nf < MinFrames

\* scipy.signal.filtfilt refuses a waveform no longer than its padding
FilterRaises(w) == Len(w) <= padlen

\* what a call leaves of the call itself: how it ended, the exception, the
\* warning, the stage and slice it ended in, the inputs it started from
Ends(how, e, m, stage, s) ==
    /\ status' = how
    /\ exc' = e
    /\ msg' = m
    /\ at' = [stage |-> stage, sl |-> s]
    /\ entry' = Inputs
    /\ UNCHANGED valid

Unread == <<tr, tr_is_int, nframes, slice_order, scan_duration, log,
            card_wave, card_trig, card_dt, resp_dt>>

\* each action below is one whole call of compute_regressors, on the inputs
\* that take it down one of its paths

\* nframes < 3: the regressors are unset, a warning goes to the logger or,
\* without one, to standard output, and the call returns
Decline ==
    /\ TooFewFrames(nframes)
    /\ regressors' = None
    /\ Ends("declined", "", IF log THEN "log" ELSE "print", "guard", 0)
    /\ UNCHANGED <<inputs, phases, heart_rate, first>>

\* the shifted waveform is stored, then the low-pass filter raises
RaiseInFilter ==
    /\ ~TooFewFrames(nframes)
    /\ FilterRaises(resp_wave)
    /\ resp_wave' = ShiftToZeroMin(resp_wave)
    /\ Ends("raised", "ValueError", "none", "filter", 0)
    /\ UNCHANGED <<Unread, outputs, first>>

\* the phase loop reaches a slice the slice order does not hold
RaiseInPhases ==
    /\ ~TooFewFrames(nframes)
    /\ ~FilterRaises(resp_wave)
    /\ FirstMissing < nslc
    /\ \E w \in {ShiftToZeroMin(resp_wave)} :
        /\ resp_wave' = w
        /\ phases' = PhasesUpTo(w, FirstMissing)
    /\ Ends("raised", "IndexError", "none", "phases", FirstMissing)
    /\ UNCHANGED <<Unread, heart_rate, regressors, first>>

\* the RV loop or the HR loop of a slice raises NIMSPhysioError
RaiseInRvhr ==
    /\ ~TooFewFrames(nframes)
    /\ ~FilterRaises(resp_wave)
    /\ FirstMissing = nslc
    /\ \E w \in {ShiftToZeroMin(resp_wave)} : \E bad \in {FirstRaising(w)} :
        /\ bad < nslc
        /\ GridEmpty => RvBadFrames(w, 0) # {}
        /\ resp_wave' = w
        /\ phases' = PhasesUpTo(w, nslc)
        /\ heart_rate' = HeartRateUpTo(bad)
        /\ Ends("raised",
                IF SliceEnds(w, bad) = "resp" THEN RespError ELSE CardError,
                "none", "rvhr", bad)
    /\ UNCHANGED <<Unread, regressors, first>>

\* the RV loop of slice 0 passes, then the maximum of a response function
\* sampled on an empty grid is taken
RaiseInResponse ==
    /\ ~TooFewFrames(nframes)
    /\ ~FilterRaises(resp_wave)
    /\ FirstMissing = nslc
    /\ GridEmpty
    /\ \E w \in {ShiftToZeroMin(resp_wave)} :
        /\ RvBadFrames(w, 0) = {}
        /\ resp_wave' = w
        /\ phases' = PhasesUpTo(w, nslc)
        /\ heart_rate' = HeartRateUpTo(0)
    /\ Ends("raised", "ValueError", "none", "response", 0)
    /\ UNCHANGED <<Unread, regressors, first>>

\* the concatenated tensor is stored, then np.polyfit raises LinAlgError on
\* the first column that holds nan (the least squares solver of the build
\* either fails to converge on nan or returns nan coefficients)
RaiseInDetrend ==
    /\ ~TooFewFrames(nframes)
    /\ ~FilterRaises(resp_wave)
    /\ FirstMissing = nslc
    /\ ~GridEmpty
    /\ \E w \in {ShiftToZeroMin(resp_wave)} :
        /\ FirstRaising(w) = nslc
        /\ \E ph \in {PhasesUpTo(w, nslc)} : \E regs \in {Concatenate(ph, w)} :
            \E bad \in {FirstNan(regs)} :
                /\ bad < nslc * NumRegs
                /\ resp_wave' = w
                /\ phases' = ph
                /\ heart_rate' = HeartRateUpTo(nslc)
                /\ regressors' = DetrendUpTo(regs, bad)
                /\ Ends("raised", "LinAlgError", "none", "detrend", bad \div NumRegs)
    /\ UNCHANGED <<Unread, first>>

\* the call runs to its end
Complete ==
    /\ ~TooFewFrames(nframes)
    /\ ~FilterRaises(resp_wave)
    /\ FirstMissing = nslc
    /\ ~GridEmpty
    /\ \E w \in {ShiftToZeroMin(resp_wave)} :
        /\ FirstRaising(w) = nslc
        /\ \E ph \in {PhasesUpTo(w, nslc)} : \E regs \in {Concatenate(ph, w)} :
            /\ resp_wave' = w
            /\ phases' = ph
            /\ heart_rate' = HeartRateUpTo(nslc)
            /\ regressors' = DetrendUpTo(regs, nslc * NumRegs)
    /\ Ends("completed", "", "none", "end", nslc)
    /\ first' = IF first.set THEN [first EXCEPT !.again = TRUE]
                ELSE [set |-> TRUE, again |-> FALSE, phases |-> phases',
                      heart_rate |-> heart_rate', regressors |-> regressors']
    /\ UNCHANGED Unread

\* each action below is one whole call of is_valid
Attributes == <<inputs, outputs>>

Returns(ret) ==
    /\ valid' = [ret |-> ret, attrs |-> Attributes]
    /\ UNCHANGED <<inputs, outputs, status, exc, msg, at, entry, first>>

Bool(b) == IF b THEN "True" ELSE "False"

\* nframes < 8: False, before any waveform is read
TooFewToJudge ==
    /\ nframes < min_number_of_frames
    /\ Returns("False")

\* a spectrum of 300 bins or fewer: the cardiac heuristic alone decides
JudgeShort ==
    /\ nframes >= min_number_of_frames
    /\ freq_size(resp_wave) <= MinSpectrum
    /\ Returns(Bool(card_valid(card_wave)))

\* a longer spectrum: either heuristic makes the data valid
JudgeLong ==
    /\ nframes >= min_number_of_frames
    /\ freq_size(resp_wave) > MinSpectrum
    /\ \E freq \in {rfft_abs(resp_wave)} :
          Returns(Bool(card_valid(card_wave) \/ lfp_exceeds(freq)))

Next ==
    \/ Decline
    \/ RaiseInFilter
    \/ RaiseInPhases
    \/ RaiseInRvhr
    \/ RaiseInResponse
    \/ RaiseInDetrend
    \/ Complete

Spec == Init /\ [][Next]_vars

\* the calls of is_valid on a freshly constructed object
ValidNext ==
    \/ TooFewToJudge
    \/ JudgeShort
    \/ JudgeLong

ValidSpec == ValidInit /\ [][ValidNext]_vars

\* ------------------------------------------------------------------ claims
\* the slices whose position lookup the last call resolved
LookupsResolved ==
    IF at.stage = "phases" THEN at.sl
    ELSE IF at.stage \in {"rvhr", "response", "detrend", "end"} THEN nslc
    ELSE 0

\* the slices whose heart rate series the last call stored
HrStored ==
    IF at.stage = "rvhr" THEN at.sl
    ELSE IF at.stage \in {"detrend", "end"} THEN nslc
    ELSE 0

Called == status # "new"

\* C1: a call with nframes < 3 returns without raising, warns through the
\* logger or, without one, by printing, and leaves regressors None
C1_FewFramesDecline ==
    (Called /\ nframes < 3) =>
        /\ status = "declined"
        /\ exc = ""
        /\ msg = (IF log THEN "log" ELSE "print")
        /\ regressors = None

C1_Witness ==
    /\ status = "declined"
    /\ nframes = 2
    /\ msg = "print"
    /\ Len(card_trig) > 0
    /\ ~IsPermutation(slice_order)

\* a tensor of nslc slices of 12 columns of nframes rows each
FullyPopulated(regs) ==
    /\ Len(regs) = nslc
    /\ \A i \in 1..nslc :
        /\ Len(regs[i]) = 12
        /\ \A c \in 1..12 : Len(regs[i][c].of) > 0

FullyDetrended(regs) == \A i \in 1..Len(regs) : \A c \in 1..Len(regs[i]) : regs[i][c].detr

\* C2: in every state the regressors attribute is unset or a fully
\* populated, fully detrended tensor of a call that ran to its end
C2_AllOrNothing ==
    \/ regressors = None
    \/ /\ FullyPopulated(regressors)
       /\ FullyDetrended(regressors)
       /\ first.set
       /\ regressors = first.regressors

\* C3: after any call the eight inputs hold the values they had before it
C3_InputsReadOnly == Called => Inputs = entry

\* C4: a call that runs to its end leaves the phases, heart_rate and
\* regressors that the first such call left, however many calls came before
C4_RecomputeSame ==
    (status = "completed") =>
        /\ first.set
        /\ phases = first.phases
        /\ heart_rate = first.heart_rate
        /\ regressors = first.regressors

\* a second completed call, on a waveform the first call had to shift
C4_Witness ==
    /\ status = "completed"
    /\ first.again
    /\ entry.resp_wave = resp_wave
    /\ nslc = 2

\* C5: no call resolves the position of a slice that the slice order holds
\* more than once: every lookup it resolves finds exactly one position
C5_NoSilentFirstMatch ==
    \A s \in 0..(LookupsResolved - 1) :
        Cardinality({i \in 1..nslc : slice_order[i] = s}) = 1

\* C6: every slice with position cur has nframes slice times, entry k being
\* (tr/nslices)*(cur+0.5) + k*tr and lying in [0, nframes*tr); with the
\* slice order [1, 0] the times of slices 0 and 1 differ by tr/2
C6_SliceTimes ==
    IsPermutation(slice_order) =>
        /\ \A s \in 0..(LookupsResolved - 1) :
            LET cur == (CHOOSE i \in 1..nslc : slice_order[i] = s) - 1
                st == slice_times(s)
            IN /\ Len(st) = nframes
               /\ \A k \in 1..Len(st) :
                    /\ 2 * nslc * st[k] =
                          tr * TicksPerSec * (2 * cur + 1)
                              + 2 * nslc * (k - 1) * tr * TicksPerSec
                    /\ 0 <= st[k]
                    /\ st[k] < nframes * tr * TicksPerSec
        /\ (slice_order = <<1, 0>> /\ LookupsResolved = 2) =>
              \A k \in 1..nframes :
                  2 * (slice_times(0)[k] - slice_times(1)[k]) = tr * TicksPerSec

\* the triggers strictly before and strictly after time t, by value
TriggerTimes == {card_trig[i] : i \in 1..Len(card_trig)}
TriggersBefore(t) == {v \in TriggerTimes : v < t}
TriggersAfter(t) == {v \in TriggerTimes : v > t}

\* C7: the cardiac phase of every slice and frame is 2*pi*(t - t1)/(t2 - t1)
\* with t1 the latest trigger before t (0 if none) and t2 the earliest one
\* after t (nframes*tr if none); with a trigger present it lies in
\* [0, 2*pi], with none it does not decrease from frame to frame
C7_CardiacPhase ==
    \A s \in 0..(LookupsResolved - 1) : \A fr \in 1..nframes :
        LET t == slice_times(s)[fr]
            t1 == IF TriggersBefore(t) = {} THEN 0 ELSE SetMax(TriggersBefore(t))
            t2 == IF TriggersAfter(t) = {} THEN nframes * tr * TicksPerSec
                  ELSE SetMin(TriggersAfter(t))
            p == phases[s + 1][fr].c
        IN /\ p = Frac(t - t1, t2 - t1)
           /\ Len(card_trig) > 0 => (IsFinite(p) /\ 0 <= p.n /\ p.n <= p.d)
           /\ (Len(card_trig) = 0 /\ fr > 1) =>
                 LET q == phases[s + 1][fr - 1].c
                 IN IsFinite(p) /\ IsFinite(q) /\ q.n * p.d <= p.n * q.d

\* a finished call with a trigger before time 0, one after the end of the
\* scan and one at a slice time
C7_Witness ==
    /\ at.stage = "end"
    /\ \E i \in 1..Len(card_trig) : card_trig[i] < 0
    /\ \E i \in 1..Len(card_trig) : card_trig[i] > scan_duration
    /\ \E i \in 1..Len(card_trig) : \E s \in 0..(nslc - 1) : \E fr \in 1..nframes :
          card_trig[i] = slice_times(s)[fr]

\* the trigger times in the window of half width 3 s around t, bounds included
TriggersAround(t) ==
    {v \in TriggerTimes : t - 3 * TicksPerSec <= v /\ v <= t + 3 * TicksPerSec}

BeatsPerMinute(W) ==
    Frac((Cardinality(W) - 1) * 60 * TicksPerSec, SetMax(W) - SetMin(W))

IsScenarioA ==
    /\ slice_order = <<0>>
    /\ tr = 2
    /\ nframes = 10
    /\ card_trig = [i \in 1..21 |-> (i - 1) * TicksPerSec]

\* C8: for every frame whose window holds triggers, heart_rate holds
\* (count-1)*60/(last - first) of the triggers in the window, the value from
\* before the demeaning; in scenario A it is 60 for every frame
C8_HeartRate ==
    /\ \A s \in 0..(HrStored - 1) : \A tp \in 1..nframes :
          LET W == TriggersAround(slice_times(s)[tp])
          IN W # {} => heart_rate[s + 1][tp] = BeatsPerMinute(W)
    /\ (IsScenarioA /\ Called) =>
          /\ status = "completed"
          /\ \A tp \in 1..10 : heart_rate[1][tp] = Frac(60, 1)

C8_Witness == IsScenarioA /\ status = "completed" /\ heart_rate[1][10] = Frac(60, 1)

ReachedRv == at.stage \in {"rvhr", "response", "detrend", "end"}

EndsBeforeWindow(t) == t - 3 * TicksPerSec >= (Len(resp_wave) + 1) * resp_dt

\* the slices whose RV loop the last call ran to its end
RvPassed ==
    IF at.stage = "rvhr" THEN (IF exc = RespError THEN at.sl ELSE at.sl + 1)
    ELSE IF at.stage = "response" THEN at.sl + 1
    ELSE IF at.stage \in {"detrend", "end"} THEN nslc
    ELSE 0

RECURSIVE IntSum(_, _)
IntSum(xs, k) == IF k = 0 THEN 0 ELSE IntSum(xs, k - 1) + xs[k]

\* stdev(cw) > c: the mean of the squared distances from the mean exceeds
\* c * c; no samples, no standard deviation
StdevAbove(cw, c) ==
    LET n == Len(cw)
        total == IntSum(cw, n)
    IN /\ n > 0
       /\ IntSum([i \in 1..n |-> (n * cw[i] - total) * (n * cw[i] - total)], n)
              > c * c * n * n * n

\* the sum of the bins lo to hi of a spectrum, counted from 0, both included
RECURSIVE BinsTotal(_, _, _)
BinsTotal(f, lo, hi) ==
    IF lo > hi THEN Q2Zero
    ELSE IF lo = hi THEN f[lo + 1]
    ELSE Q2Add(BinsTotal(f, lo, (lo + hi) \div 2),
               BinsTotal(f, (lo + hi) \div 2 + 1, hi))

\* mean(spectrum[2:100]) / mean(spectrum[-100:]) > 50 for a spectrum of
\* more than 300 bins: 98 bins over the last 100 bins
SpectrumValid(w) ==
    /\ Len(w) \div 2 + 1 > 300
    /\ LET f == rfft_abs(w)
           low == BinsTotal(f, 2, 99)
           high == BinsTotal(f, Len(f) - 100, Len(f) - 1)
       IN IF high = Q2Zero THEN low # Q2Zero
          ELSE Q2Sign(Q2Add(Q2Scale(100, low), Q2Scale(-(50 * 98), high))) = 1

IsValidCalled == valid.ret # "none"

MultiplesBelow40 == [k \in 1..((40 + tr - 1) \div tr) |-> (k - 1) * tr]

\* C12: the grid the response functions are sampled on holds exactly the
\* multiples of tr below 40 seconds, 0, 2, ..., 38 (20 samples) for tr = 2,
\* and at least one sample for every tr
C12_ResponseGrid ==
    ReachedRv =>
        /\ ResponseGrid = MultiplesBelow40
        /\ tr = 2 => Len(ResponseGrid) = 20
        /\ Len(ResponseGrid) > 0

\* C13: for every slice and frame whose window holds at least one trigger,
\* the last trigger of the window is later than the first and the heart
\* rate is a finite number; the hr_crf and hr_crf_d columns of a stored
\* tensor hold no nan
C13_HrWellDefined ==
    /\ \A s \in 0..(HrStored - 1) : \A tp \in 1..nframes :
          LET W == TriggersAround(slice_times(s)[tp])
          IN W # {} =>
                /\ SetMax(W) # SetMin(W)
                /\ IsFinite(heart_rate[s + 1][tp])
    /\ regressors # None =>
          \A i \in 1..Len(regressors) : \A c \in {11, 12} : ~regressors[i][c].nan
====
